---- MODULE Spec2Model ----
(***************************************************************************)
(* A model of volatility_mcp_server.py: the MCP tools and resources that   *)
(* validate a memory-image path, build an argument vector, run Volatility  *)
(* as a child process and return its captured output.                      *)
(*                                                                         *)
(* Text is modelled as it is computed.  A str is a sequence of Unicode     *)
(* code points, a bytes object a sequence of integers 0..255.  Paths       *)
(* follow the POSIX flavour of os.path.                                    *)
(*                                                                         *)
(* Scheduling is asyncio's: a coroutine runs without interruption between  *)
(* two awaits, so each action below is one such stretch of a handler.      *)
(***************************************************************************)
EXTENDS Integers, Sequences, FiniteSets, TLC

VARIABLES
  calls,    \* calls[c]: the frame of the handler serving request slot c
  files,    \* the regular files of the filesystem: path -> size in bytes
  dirs      \* the directories of the filesystem (besides ".", ".." and "/")

vars == <<calls, files, dirs>>

None == <<-1>>   \* Python's None (no str holds a negative code point)

----------------------------------------------------------------------------
(* Bounds of the model *)

MaxComps == 2      \* components of a path a caller passes
MaxCalls == 2      \* concurrent run_malfind calls in SpecRace
MaxDumps == 1      \* files one Volatility run writes to its dump directory
MaxLines == 6      \* lines of the help text in SpecPlugins
MaxFiles == 3      \* files of the tree list_memory_dumps walks in SpecScan

----------------------------------------------------------------------------
(* str helpers *)

RECURSIVE Flatten(_, _)
\* sep.join(parts)
Flatten(parts, sep) ==
  IF parts = <<>> THEN <<>>
  ELSE IF Len(parts) = 1 THEN parts[1]
  ELSE parts[1] \o sep \o Flatten(Tail(parts), sep)

RECURSIVE SplitOn(_, _)
\* s.split(sep) for a one-character sep: always at least one part
SplitOn(s, sep) ==
  IF \A i \in 1..Len(s) : s[i] # sep THEN <<s>>
  ELSE LET k == CHOOSE i \in 1..Len(s) :
                   s[i] = sep /\ \A j \in 1..(i-1) : s[j] # sep
       IN <<SubSeq(s, 1, k-1)>> \o SplitOn(SubSeq(s, k+1, Len(s)), sep)

\* str.isspace for one character
IsSpace(ch) == ch \in {9, 10, 11, 12, 13, 28, 29, 30, 31, 32, 133, 160}

RECURSIVE LStrip(_)
LStrip(s) == IF s # <<>> /\ IsSpace(Head(s)) THEN LStrip(Tail(s)) ELSE s

RECURSIVE RStrip(_)
RStrip(s) ==
  IF s # <<>> /\ IsSpace(s[Len(s)]) THEN RStrip(SubSeq(s, 1, Len(s)-1)) ELSE s

\* s.strip()
Strip(s) == RStrip(LStrip(s))

RECURSIVE TakeWord(_)
TakeWord(s) ==
  IF s = <<>> \/ IsSpace(Head(s)) THEN <<>> ELSE <<Head(s)>> \o TakeWord(Tail(s))

RECURSIVE SplitWs(_)
\* s.split(): runs of whitespace separate, no empty token
SplitWs(s) ==
  LET t == LStrip(s) IN
  IF t = <<>> THEN <<>>
  ELSE LET w == TakeWord(t)
       IN <<w>> \o SplitWs(SubSeq(t, Len(w)+1, Len(t)))

\* s.lower(), on the ASCII letters
Lower(s) == [i \in 1..Len(s) |-> IF s[i] \in 65..90 THEN s[i] + 32 ELSE s[i]]

\* s.endswith(suffix)
EndsWith(s, suffix) ==
  /\ Len(suffix) <= Len(s)
  /\ SubSeq(s, Len(s) - Len(suffix) + 1, Len(s)) = suffix

StartsWith(s, prefix) ==
  /\ Len(prefix) <= Len(s)
  /\ SubSeq(s, 1, Len(prefix)) = prefix

RECURSIVE NatDigits(_)
NatDigits(n) ==
  IF n < 10 THEN <<48 + n>> ELSE NatDigits(n \div 10) \o <<48 + (n % 10)>>

\* str(n) for an int
ToDecimal(n) == IF n < 0 THEN <<45>> \o NatDigits(-n) ELSE NatDigits(n)

HexDigit(d) == IF d < 10 THEN 48 + d ELSE 87 + d

\* bytes.decode('utf-8', errors='replace'), for one- and two-byte sequences:
\* every byte that starts no well-formed sequence becomes U+FFFD
RECURSIVE Decode(_)
Decode(b) ==
  IF b = <<>> THEN <<>>
  ELSE IF b[1] < 128 THEN <<b[1]>> \o Decode(Tail(b))
  ELSE IF b[1] \in 194..223 /\ Len(b) >= 2 /\ b[2] \in 128..191
       THEN <<(b[1] - 192) * 64 + (b[2] - 128)>> \o Decode(SubSeq(b, 3, Len(b)))
  ELSE <<65533>> \o Decode(Tail(b))

\* str.encode('utf-8') for code points below U+0800 and U+FFFD
RECURSIVE Encode(_)
Encode(s) ==
  IF s = <<>> THEN <<>>
  ELSE (IF s[1] < 128 THEN <<s[1]>>
        ELSE IF s[1] < 2048 THEN <<192 + (s[1] \div 64), 128 + (s[1] % 64)>>
        ELSE <<239, 191, 189>>) \o Encode(Tail(s))

----------------------------------------------------------------------------
(* os.path *)

Slash == <<47>>  \* "/"
Dot == <<46>>  \* "."
DotDot == <<46, 46>>  \* ".."
RECURSIVE NormComps(_, _, _)
\* the loop of posixpath.normpath over the components
NormComps(comps, acc, absolute) ==
  IF comps = <<>> THEN acc
  ELSE LET comp == Head(comps) IN
       IF comp = <<>> \/ comp = Dot THEN NormComps(Tail(comps), acc, absolute)
       ELSE IF comp # DotDot
                 \/ (~absolute /\ acc = <<>>)
                 \/ (acc # <<>> /\ acc[Len(acc)] = DotDot)
            THEN NormComps(Tail(comps), Append(acc, comp), absolute)
       ELSE IF acc # <<>>
            THEN NormComps(Tail(comps), SubSeq(acc, 1, Len(acc)-1), absolute)
       ELSE NormComps(Tail(comps), acc, absolute)

\* os.path.normpath
NormPath(path) ==
  IF path = <<>> THEN Dot
  ELSE LET slashes == IF ~StartsWith(path, Slash) THEN 0
                      ELSE IF StartsWith(path, Slash \o Slash)
                              /\ ~StartsWith(path, Slash \o Slash \o Slash)
                           THEN 2 ELSE 1
           comps == NormComps(SplitOn(path, 47), <<>>, slashes > 0)
           body == Flatten(comps, Slash)
           full == (IF slashes = 2 THEN Slash \o Slash
                    ELSE IF slashes = 1 THEN Slash ELSE <<>>) \o body
       IN IF full = <<>> THEN Dot ELSE full

\* os.path.join(a, b) for a relative b
PathJoin(a, b) ==
  IF a = <<>> \/ EndsWith(a, Slash) THEN a \o b ELSE a \o Slash \o b

\* the directory a normalized path is a direct entry of
ParentDir(p) ==
  LET parts == SplitOn(p, 47) IN
  IF Len(parts) = 1 THEN Dot
  ELSE LET head == Flatten(SubSeq(parts, 1, Len(parts)-1), Slash)
       IN IF head = <<>> THEN Slash ELSE head

\* directories that exist whatever the model's tree holds
AlwaysDir(p) == p \in {Dot, DotDot, Slash}

IsDir(ds, p) == p \in ds \/ AlwaysDir(p)
IsFile(fs, p) == p \in DOMAIN fs
Exists(fs, ds, p) == IsFile(fs, p) \/ IsDir(ds, p)

\* os.listdir(d): the direct entries of d
ListDir(fs, ds, d) == {p \in (DOMAIN fs) \cup ds : ParentDir(p) = d}

\* the paths makedirs visits for a normalized path: each ancestor, then itself
Prefixes(p) ==
  LET parts == SplitOn(p, 47)
      abs == StartsWith(p, Slash)
  IN [i \in 1..Len(parts) |->
        IF abs /\ Flatten(SubSeq(parts, 1, i), Slash) = <<>> THEN Slash
        ELSE Flatten(SubSeq(parts, 1, i), Slash)]

E_NOENT == <<91, 69, 114, 114, 110, 111, 32, 50, 93, 32, 78, 111, 32, 115, 117, 99, 104, 32, 102, 105, 108, 101, 32, 111, 114, 32, 100, 105, 114, 101, 99, 116, 111, 114, 121>>  \* "[Errno 2] No such file or directory"
E_ACCES == <<91, 69, 114, 114, 110, 111, 32, 49, 51, 93, 32, 80, 101, 114, 109, 105, 115, 115, 105, 111, 110, 32, 100, 101, 110, 105, 101, 100>>  \* "[Errno 13] Permission denied"
E_EXIST == <<91, 69, 114, 114, 110, 111, 32, 49, 55, 93, 32, 70, 105, 108, 101, 32, 101, 120, 105, 115, 116, 115>>  \* "[Errno 17] File exists"
E_NOTDIR == <<91, 69, 114, 114, 110, 111, 32, 50, 48, 93, 32, 78, 111, 116, 32, 97, 32, 100, 105, 114, 101, 99, 116, 111, 114, 121>>  \* "[Errno 20] Not a directory"
Colon_Quote == <<58, 32, 39>>  \* ": '"
Quote == <<39>>  \* "'"
\* str(e) of an OSError raised for path p
OSErrorStr(e, p) == e \o Colon_Quote \o p \o Quote

RECURSIVE MkdirChain(_, _, _)
\* the outcomes of creating the paths ps in turn, the last one exclusively:
\* the OS may refuse any mkdir; what was created before a failure stays
MkdirChain(ps, fs, ds) ==
  IF ps = <<>> THEN {[err |-> None, dirs |-> ds]}
  ELSE LET p == Head(ps)
           last == Len(ps) = 1
       IN IF IsFile(fs, p)
          THEN {[err |-> OSErrorStr(IF last THEN E_EXIST ELSE E_NOTDIR, ps[Len(ps)]),
                 dirs |-> ds]}
          ELSE IF IsDir(ds, p)
          THEN IF last THEN {[err |-> OSErrorStr(E_EXIST, p), dirs |-> ds]}
               ELSE MkdirChain(Tail(ps), fs, ds)
          ELSE {[err |-> OSErrorStr(E_ACCES, p), dirs |-> ds]}
                 \cup MkdirChain(Tail(ps), fs, ds \cup {p})

\* Makedirs with its exception swallowed
MakedirsSwallowed(fs, ds, d) ==
  {[err |-> None, dirs |-> made.dirs] : made \in MkdirChain(Prefixes(d), fs, ds)}

\* os.makedirs(d): every way the call can end
Makedirs(fs, ds, d) == MkdirChain(Prefixes(d), fs, ds)

----------------------------------------------------------------------------
(* Configuration *)

\* sys.executable: the interpreter the server itself runs under
VOLATILITY_PYTHON == <<47, 117, 115, 114, 47, 98, 105, 110, 47, 112, 121, 116, 104, 111, 110, 51>>  \* "/usr/bin/python3"
VolatilityDirRaw == <<67, 58, 92, 85, 115, 101, 114, 115, 92, 118, 105, 115, 104, 97, 92, 68, 101, 115, 107, 116, 111, 112, 92, 118, 111, 108, 97, 116, 105, 108, 105, 116, 121, 51>>  \* "C:\\Users\\visha\\Desktop\\volatility3"
VolPy == <<118, 111, 108, 46, 112, 121>>  \* "vol.py"
VOLATILITY_DIR == NormPath(VolatilityDirRaw)
VOLATILITY_SCRIPT == PathJoin(VOLATILITY_DIR, VolPy)

----------------------------------------------------------------------------
(* Fixed strings of the handlers *)

Opt_f == <<45, 102>>  \* "-f"
Opt_h == <<45, 104>>  \* "-h"
Opt_help == <<45, 45, 104, 101, 108, 112>>  \* "--help"
Opt_pid == <<45, 45, 112, 105, 100>>  \* "--pid"
Opt_dump_dir == <<45, 45, 100, 117, 109, 112, 45, 100, 105, 114>>  \* "--dump-dir"
P_Info == <<119, 105, 110, 100, 111, 119, 115, 46, 105, 110, 102, 111, 46, 73, 110, 102, 111>>  \* "windows.info.Info"
P_PsTree == <<119, 105, 110, 100, 111, 119, 115, 46, 112, 115, 116, 114, 101, 101, 46, 80, 115, 84, 114, 101, 101>>  \* "windows.pstree.PsTree"
P_PsList == <<119, 105, 110, 100, 111, 119, 115, 46, 112, 115, 108, 105, 115, 116, 46, 80, 115, 76, 105, 115, 116>>  \* "windows.pslist.PsList"
P_PsScan == <<119, 105, 110, 100, 111, 119, 115, 46, 112, 115, 115, 99, 97, 110, 46, 80, 115, 83, 99, 97, 110>>  \* "windows.psscan.PsScan"
P_NetScan == <<119, 105, 110, 100, 111, 119, 115, 46, 110, 101, 116, 115, 99, 97, 110, 46, 78, 101, 116, 83, 99, 97, 110>>  \* "windows.netscan.NetScan"
P_Malfind == <<119, 105, 110, 100, 111, 119, 115, 46, 109, 97, 108, 102, 105, 110, 100, 46, 77, 97, 108, 102, 105, 110, 100>>  \* "windows.malfind.Malfind"
P_CmdLine == <<119, 105, 110, 100, 111, 119, 115, 46, 99, 109, 100, 108, 105, 110, 101, 46, 67, 109, 100, 76, 105, 110, 101>>  \* "windows.cmdline.CmdLine"
P_DllList == <<119, 105, 110, 100, 111, 119, 115, 46, 100, 108, 108, 108, 105, 115, 116, 46, 68, 108, 108, 76, 105, 115, 116>>  \* "windows.dlllist.DllList"
P_Handles == <<119, 105, 110, 100, 111, 119, 115, 46, 104, 97, 110, 100, 108, 101, 115, 46, 72, 97, 110, 100, 108, 101, 115>>  \* "windows.handles.Handles"
P_FileScan == <<119, 105, 110, 100, 111, 119, 115, 46, 102, 105, 108, 101, 115, 99, 97, 110, 46, 70, 105, 108, 101, 83, 99, 97, 110>>  \* "windows.filescan.FileScan"
P_Memmap == <<119, 105, 110, 100, 111, 119, 115, 46, 109, 101, 109, 109, 97, 112, 46, 77, 101, 109, 109, 97, 112>>  \* "windows.memmap.Memmap"
ErrRunPrefix == <<69, 114, 114, 111, 114, 32, 114, 117, 110, 110, 105, 110, 103, 32, 86, 111, 108, 97, 116, 105, 108, 105, 116, 121, 32, 99, 111, 109, 109, 97, 110, 100, 58, 32>>  \* "Error running Volatility command: "
ExcRunPrefix == <<69, 120, 99, 101, 112, 116, 105, 111, 110, 32, 114, 117, 110, 110, 105, 110, 103, 32, 86, 111, 108, 97, 116, 105, 108, 105, 116, 121, 58, 32>>  \* "Exception running Volatility: "
NotFoundPrefix == <<69, 114, 114, 111, 114, 58, 32, 77, 101, 109, 111, 114, 121, 32, 100, 117, 109, 112, 32, 102, 105, 108, 101, 32, 110, 111, 116, 32, 102, 111, 117, 110, 100, 32, 97, 116, 32>>  \* "Error: Memory dump file not found at "
DumpDirErrPrefix == <<69, 114, 114, 111, 114, 32, 99, 114, 101, 97, 116, 105, 110, 103, 32, 100, 117, 109, 112, 32, 100, 105, 114, 101, 99, 116, 111, 114, 121, 58, 32>>  \* "Error creating dump directory: "
DumpedHead == <<10, 10, 68, 117, 109, 112, 101, 100, 32>>  \* "\n\nDumped "
DumpedTail == <<32, 115, 117, 115, 112, 105, 99, 105, 111, 117, 115, 32, 109, 101, 109, 111, 114, 121, 32, 115, 101, 99, 116, 105, 111, 110, 115, 32, 116, 111, 32>>  \* " suspicious memory sections to "
----------------------------------------------------------------------------
(* The frame of one handler call: its parameters and locals *)

IdleFrame ==
  [pc |-> "idle",          \* idle | spawn | running | done
   op |-> "",              \* the tool or resource called
   path |-> None,          \* memory_dump_path, once normalized
   pid |-> <<>>,           \* pid: <<>> for None, <<n>> for the int n
   dump_dir |-> None,      \* dump_dir, normalized when it is truthy
   plugin |-> None,        \* plugin_name or plugin
   additional_args |-> None,
   cmd |-> <<>>,           \* run_volatility's cmd
   attempts |-> 0,         \* calls of create_subprocess_exec
   children |-> 0,         \* child processes it started
   rc |-> <<>>,            \* process.returncode: <<>> until the child exits
   stdout |-> <<>>,        \* the captured bytes
   stderr |-> <<>>,
   dumped |-> 0,           \* files its child wrote to the dump directory
   rv |-> None,            \* what run_volatility returned
   memory_files |-> <<>>,  \* list_memory_dumps's list
   result |-> None,        \* what the handler returned
   fault |-> None]         \* the exception that left the handler, if any

\* the handler returns text without calling run_volatility
ReturnEarly(f, text) == [f EXCEPT !.pc = "done", !.result = text]

\* run_volatility up to its first await: cmd is built, the spawn is requested
RunVolatility(f, cmd_args) ==
  [f EXCEPT !.pc = "spawn",
            !.cmd = <<VOLATILITY_PYTHON, VOLATILITY_SCRIPT>> \o cmd_args,
            !.attempts = @ + 1]

\* ImageFound with os.path.exists in place of os.path.isfile
ImageFoundExists(fs, ds, p) == Exists(fs, ds, p)

\* the os.path.isfile test every image handler makes
ImageFound(fs, ds, p) == IsFile(fs, p)

\* the handler of a tool that takes the image path alone
SimpleTool(f, op, memory_dump_path, subcommand) ==
  LET p == NormPath(memory_dump_path)
      g == [f EXCEPT !.op = op, !.path = p]
  IN IF ~ImageFound(files, dirs, p)
     THEN ReturnEarly(g, NotFoundPrefix \o p)
     ELSE RunVolatility(g, <<Opt_f, p, subcommand>>)

\* PidArgs under "if pid:", which drops pid 0
PidArgsTruthy(pid) ==
  IF pid # <<>> /\ pid[1] # 0 THEN <<Opt_pid, ToDecimal(pid[1])>> ELSE <<>>

\* cmd_args.extend(["--pid", str(pid)]) under "if pid is not None"
PidArgs(pid) == IF pid # <<>> THEN <<Opt_pid, ToDecimal(pid[1])>> ELSE <<>>

\* the handler of run_dlllist and run_handles
PidTool(f, op, memory_dump_path, pid, subcommand) ==
  LET p == NormPath(memory_dump_path)
      g == [f EXCEPT !.op = op, !.path = p, !.pid = pid]
  IN IF ~ImageFound(files, dirs, p)
     THEN ReturnEarly(g, NotFoundPrefix \o p)
     ELSE RunVolatility(g, <<Opt_f, p, subcommand>> \o PidArgs(pid))

\* Python's truth test of an Optional[str]
Truthy(s) == s # None /\ s # <<>>

\* DumpDirMissing without the os.path.isdir test: os.makedirs is always called
DumpDirMissingAlways(fs, ds, d) == TRUE

\* the os.path.isdir test that guards os.makedirs in run_malfind
DumpDirMissing(fs, ds, d) == ~IsDir(ds, d)

----------------------------------------------------------------------------
(* The plugin catalogue: the scan of get_volatility_plugins *)

Heading == <<80, 108, 117, 103, 105, 110, 115>>  \* "Plugins"
RECURSIVE ScanLinesNoBreak(_, _, _)
\* ScanLines without the break: a later heading starts the capture again
ScanLinesNoBreak(lines, capture, plugins) ==
  IF lines = <<>> THEN plugins
  ELSE LET line == Head(lines) IN
       IF Strip(line) = Heading THEN ScanLinesNoBreak(Tail(lines), TRUE, plugins)
       ELSE IF capture /\ Strip(line) = <<>>
            THEN ScanLinesNoBreak(Tail(lines), FALSE, plugins)
       ELSE IF capture
            THEN ScanLinesNoBreak(Tail(lines), capture, Append(plugins, Strip(line)))
       ELSE ScanLinesNoBreak(Tail(lines), capture, plugins)

RECURSIVE ScanLines(_, _, _)
\* the for loop over output.split('\n'), with its capture flag and its list
ScanLines(lines, capture, plugins) ==
  IF lines = <<>> THEN plugins
  ELSE LET line == Head(lines) IN
       IF Strip(line) = Heading THEN ScanLines(Tail(lines), TRUE, plugins)
       ELSE IF capture /\ Strip(line) = <<>> THEN plugins
       ELSE IF capture
            THEN ScanLines(Tail(lines), capture, Append(plugins, Strip(line)))
       ELSE ScanLines(Tail(lines), capture, plugins)

ExtractPlugins(output) == ScanLines(SplitOn(output, 10), FALSE, <<>>)

\* one character inside a JSON string literal, as json.dumps writes it
\* (ensure_ascii: everything outside ' '..'~' is escaped)
JsonChar(ch) ==
  CASE ch = 34 -> <<92, 34>>
    [] ch = 92 -> <<92, 92>>
    [] ch = 10 -> <<92, 110>>
    [] ch = 13 -> <<92, 114>>
    [] ch = 9 -> <<92, 116>>
    [] ch = 8 -> <<92, 98>>
    [] ch = 12 -> <<92, 102>>
    [] OTHER -> IF ch \in 32..126 THEN <<ch>>
                ELSE <<92, 117, HexDigit(ch \div 4096), HexDigit((ch \div 256) % 16),
                       HexDigit((ch \div 16) % 16), HexDigit(ch % 16)>>

RECURSIVE JsonChars(_)
JsonChars(s) == IF s = <<>> THEN <<>> ELSE JsonChar(Head(s)) \o JsonChars(Tail(s))

JsonString(s) == <<34>> \o JsonChars(s) \o <<34>>

JsonOpen == <<91, 10, 32, 32>>  \* "[\n  "
JsonSep == <<44, 10, 32, 32>>  \* ",\n  "
JsonClose == <<10, 93>>  \* "\n]"
JsonEmpty == <<91, 93>>  \* "[]"
\* json.dumps(plugins, indent=2) for a list of str
JsonDumps(plugins) ==
  IF plugins = <<>> THEN JsonEmpty
  ELSE JsonOpen
         \o Flatten([i \in 1..Len(plugins) |-> JsonString(plugins[i])], JsonSep)
         \o JsonClose

----------------------------------------------------------------------------
(* What a handler does with what run_volatility returned *)

\* run_malfind, after the await: the count of the dump directory's entries
MalfindSummary(f, text, fs, ds) ==
  IF Truthy(f.dump_dir) /\ Exists(fs, ds, f.dump_dir)
  THEN LET dumped_files == ListDir(fs, ds, f.dump_dir) IN
       IF dumped_files # {}
       THEN text \o DumpedHead \o ToDecimal(Cardinality(dumped_files))
              \o DumpedTail \o f.dump_dir
       ELSE text
  ELSE text

\* the handler from the return of run_volatility to its own return
Finish(f, text, fs, ds) ==
  LET g == [f EXCEPT !.pc = "done", !.rv = text] IN
  CASE f.op = "run_malfind" ->
         IF Truthy(f.dump_dir) /\ IsFile(fs, f.dump_dir)
         THEN [g EXCEPT !.fault = OSErrorStr(E_NOTDIR, f.dump_dir)]  \* os.listdir raises
         ELSE [g EXCEPT !.result = MalfindSummary(f, text, fs, ds)]
    [] f.op = "get_volatility_plugins" ->
         [g EXCEPT !.result = JsonDumps(ExtractPlugins(text))]
    [] OTHER -> [g EXCEPT !.result = text]

\* RunResult with standard error captured into standard output
RunResultMixed(returncode, stdout, stderr) ==
  IF returncode # 0 THEN ErrRunPrefix \o Decode(stderr) ELSE Decode(stdout \o stderr)

\* run_volatility from the child's exit to its return
RunResult(returncode, stdout, stderr) ==
  IF returncode # 0 THEN ErrRunPrefix \o Decode(stderr) ELSE Decode(stdout)

----------------------------------------------------------------------------
(* What callers and the environment supply *)

CompM == <<109>>  \* "m"
PathComps == {<<>>, Dot, DotDot, CompM}

RECURSIVE CompSeqs(_)
CompSeqs(n) ==
  IF n = 0 THEN {<<>>}
  ELSE LET shorter == CompSeqs(n - 1)
       IN shorter \cup {Append(cs, c) : cs \in {x \in shorter : Len(x) = n - 1},
                                         c \in PathComps}

\* the image paths callers pass: up to MaxComps components joined by "/"
RawPaths == {Flatten(cs, Slash) : cs \in CompSeqs(MaxComps) \ {<<>>}}

RelM == <<109>>  \* "m"
AbsM == <<47, 109>>  \* "/m"
RelD == <<100>>  \* "d"
AbsD == <<47, 100>>  \* "/d"
AbsDD == <<47, 100, 47, 100>>  \* "/d/d"
AbsDDot == <<47, 46, 47, 100, 47>>  \* "/./d/"
\* the dump directories callers pass
DumpDirInputs == {None, <<>>, RelD, AbsD, AbsDD, AbsDDot, RelM}

Pids == {<<>>, <<0>>, <<1204>>}

PluginX == <<119, 105, 110, 100, 111, 119, 115, 46, 101, 110, 118, 97, 114, 115, 46, 69, 110, 118, 97, 114, 115>>  \* "windows.envars.Envars"
PluginNames == {PluginX, <<>>}

ArgsBlank == <<32, 32>>  \* "  "
ArgsPid == <<45, 45, 112, 105, 100, 32, 52>>  \* "--pid 4"
ArgsTwo == <<32, 45, 45, 100, 117, 109, 112, 9, 45, 114, 32, 32, 106, 115, 111, 110, 10>>  \* " --dump\t-r  json\n"
AdditionalArgs == {<<>>, ArgsBlank, ArgsPid, ArgsTwo}

ExitCodes == {0, 1}

B_ok == <<111, 107, 10>>  \* "ok\n"
B_help == <<117, 115, 97, 103, 101, 10, 80, 108, 117, 103, 105, 110, 115, 10, 32, 32, 97, 46, 66, 10, 10>>  \* "usage\nPlugins\n  a.B\n\n"
B_boom == <<98, 111, 111, 109>>  \* "boom"
\* what Volatility may write to standard output: the last is not valid UTF-8
OutSamples == {B_ok, B_help, <<111, 255, 195, 169>>}
ErrSamples == {B_boom, <<>>}

\* str(e) of what create_subprocess_exec may raise
SpawnErrors == {OSErrorStr(E_NOENT, VOLATILITY_DIR),
                OSErrorStr(E_ACCES, VOLATILITY_PYTHON)}

DumpPrefix == <<112, 105, 100, 46>>  \* "pid."
DumpSuffix == <<46, 100, 109, 112>>  \* ".dmp"
DumpName(i) == DumpPrefix \o ToDecimal(i) \o DumpSuffix

\* the directory the child, which runs in VOLATILITY_DIR, takes d to be
ChildPath(d) ==
  IF StartsWith(d, Slash) THEN d ELSE NormPath(PathJoin(VOLATILITY_DIR, d))

\* the dump directory the child was told to write to, or None
ChildDumpDir(f) ==
  IF \E i \in 1..Len(f.cmd) : f.cmd[i] = Opt_dump_dir /\ i < Len(f.cmd)
  THEN LET i == CHOOSE j \in 1..Len(f.cmd) : f.cmd[j] = Opt_dump_dir /\ j < Len(f.cmd)
       IN ChildPath(f.cmd[i + 1])
  ELSE None

----------------------------------------------------------------------------
(* The handlers, each from its call to its first await or early return *)

Start(c, frame) ==
  /\ calls[c].pc = "idle"
  /\ calls' = [calls EXCEPT ![c] = frame]
  /\ UNCHANGED <<files, dirs>>

list_available_plugins(c) ==
  Start(c, RunVolatility([IdleFrame EXCEPT !.op = "list_available_plugins"],
                         <<Opt_h>>))

get_image_info(c) ==
  \E memory_dump_path \in RawPaths :
    Start(c, SimpleTool(IdleFrame, "get_image_info", memory_dump_path, P_Info))

run_pstree(c) ==
  \E memory_dump_path \in RawPaths :
    Start(c, SimpleTool(IdleFrame, "run_pstree", memory_dump_path, P_PsTree))

run_pslist(c) ==
  \E memory_dump_path \in RawPaths :
    Start(c, SimpleTool(IdleFrame, "run_pslist", memory_dump_path, P_PsList))

run_psscan(c) ==
  \E memory_dump_path \in RawPaths :
    Start(c, SimpleTool(IdleFrame, "run_psscan", memory_dump_path, P_PsScan))

run_netscan(c) ==
  \E memory_dump_path \in RawPaths :
    Start(c, SimpleTool(IdleFrame, "run_netscan", memory_dump_path, P_NetScan))

run_cmdline(c) ==
  \E memory_dump_path \in RawPaths :
    Start(c, SimpleTool(IdleFrame, "run_cmdline", memory_dump_path, P_CmdLine))

run_filescan(c) ==
  \E memory_dump_path \in RawPaths :
    Start(c, SimpleTool(IdleFrame, "run_filescan", memory_dump_path, P_FileScan))

run_dlllist(c) ==
  \E memory_dump_path \in RawPaths, pid \in Pids :
    Start(c, PidTool(IdleFrame, "run_dlllist", memory_dump_path, pid, P_DllList))

run_handles(c) ==
  \E memory_dump_path \in RawPaths, pid \in Pids :
    Start(c, PidTool(IdleFrame, "run_handles", memory_dump_path, pid, P_Handles))

run_memmap(c) ==
  \E memory_dump_path \in RawPaths, pid \in Pids \ {<<>>} :
    LET p == NormPath(memory_dump_path)
        g == [IdleFrame EXCEPT !.op = "run_memmap", !.path = p, !.pid = pid]
    IN Start(c, IF ~ImageFound(files, dirs, p)
                THEN ReturnEarly(g, NotFoundPrefix \o p)
                ELSE RunVolatility(g, <<Opt_f, p, P_Memmap, Opt_pid,
                                        ToDecimal(pid[1])>>))

run_custom_plugin(c) ==
  \E memory_dump_path \in RawPaths, plugin_name \in PluginNames,
     additional_args \in AdditionalArgs :
    LET p == NormPath(memory_dump_path)
        g == [IdleFrame EXCEPT !.op = "run_custom_plugin", !.path = p,
                               !.plugin = plugin_name,
                               !.additional_args = additional_args]
    IN Start(c, IF ~ImageFound(files, dirs, p)
                THEN ReturnEarly(g, NotFoundPrefix \o p)
                ELSE RunVolatility(g, <<Opt_f, p, plugin_name>>
                                        \o (IF additional_args # <<>>
                                            THEN SplitWs(additional_args)
                                            ELSE <<>>)))

run_malfind(c, paths, dump_dirs) ==
  /\ calls[c].pc = "idle"
  /\ UNCHANGED files
  /\ \E memory_dump_path \in paths, dump_dir \in dump_dirs :
       LET p == NormPath(memory_dump_path)
           g == [IdleFrame EXCEPT !.op = "run_malfind", !.path = p,
                                  !.dump_dir = dump_dir]
           cmd_args == <<Opt_f, p, P_Malfind>>
       IN IF ~ImageFound(files, dirs, p)
          THEN /\ calls' = [calls EXCEPT ![c] = ReturnEarly(g, NotFoundPrefix \o p)]
               /\ UNCHANGED dirs
          ELSE IF ~Truthy(dump_dir)
          THEN /\ calls' = [calls EXCEPT ![c] = RunVolatility(g, cmd_args)]
               /\ UNCHANGED dirs
          ELSE LET d == NormPath(dump_dir)
                   h == [g EXCEPT !.dump_dir = d]
                   go == RunVolatility(h, cmd_args \o <<Opt_dump_dir, d>>)
               IN IF ~DumpDirMissing(files, dirs, d)
                  THEN /\ calls' = [calls EXCEPT ![c] = go]
                       /\ UNCHANGED dirs
                  ELSE \E made \in Makedirs(files, dirs, d) :
                         /\ dirs' = made.dirs
                         /\ calls' = [calls EXCEPT ![c] =
                              IF made.err # None
                              THEN ReturnEarly(h, DumpDirErrPrefix \o made.err)
                              ELSE go]

get_volatility_plugins(c) ==
  Start(c, RunVolatility([IdleFrame EXCEPT !.op = "get_volatility_plugins"],
                         <<Opt_h>>))

get_plugin_help(c) ==
  \E plugin \in PluginNames :
    Start(c, RunVolatility([IdleFrame EXCEPT !.op = "get_plugin_help",
                                             !.plugin = plugin],
                           <<plugin, Opt_help>>))

----------------------------------------------------------------------------
(* run_volatility's awaits, and the rest of the handler behind each *)

\* create_subprocess_exec starts the child
SpawnOk(c) ==
  /\ calls[c].pc = "spawn"
  /\ calls' = [calls EXCEPT ![c] = [@ EXCEPT !.pc = "running", !.children = @ + 1]]
  /\ UNCHANGED <<files, dirs>>

\* create_subprocess_exec raises: the except branch returns, the handler ends
SpawnFails(c) ==
  /\ calls[c].pc = "spawn"
  /\ \E e \in SpawnErrors :
       calls' = [calls EXCEPT ![c] = Finish(@, ExcRunPrefix \o e, files, dirs)]
  /\ UNCHANGED <<files, dirs>>

\* the files on disk once a child that was given a dump directory wrote n files
WithDumps(fs, ds, f, n) ==
  LET d == ChildDumpDir(f)
      new == IF d # None /\ IsDir(ds, d)
             THEN {PathJoin(d, DumpName(i)) : i \in 1..n} ELSE {}
  IN [q \in (DOMAIN fs) \cup new |-> IF q \in new THEN 4096 ELSE fs[q]]

\* the child exits: communicate() returns, run_volatility returns, the handler ends
ChildExit(c, codes, outs, errs) ==
  /\ calls[c].pc = "running"
  /\ UNCHANGED dirs
  /\ \E returncode \in codes, stdout \in outs, stderr \in errs,
        n \in 0..(IF ChildDumpDir(calls[c]) # None
                     /\ IsDir(dirs, ChildDumpDir(calls[c]))
                  THEN MaxDumps ELSE 0) :
       /\ files' = WithDumps(files, dirs, calls[c], n)
       /\ calls' = [calls EXCEPT ![c] =
            Finish([@ EXCEPT !.rc = <<returncode>>, !.stdout = stdout,
                             !.stderr = stderr, !.dumped = n],
                   RunResult(returncode, stdout, stderr), files', dirs)]

\* the response is sent; the slot serves the next request
Respond(c) ==
  /\ calls[c].pc = "done"
  /\ calls' = [calls EXCEPT ![c] = IdleFrame]
  /\ UNCHANGED <<files, dirs>>

----------------------------------------------------------------------------
(* The server, one request at a time, over a small filesystem *)

FileTable(paths) == [q \in paths |-> 4096]

ServerSlots == {1}

Init ==
  /\ calls = [c \in ServerSlots |-> IdleFrame]
  /\ \E m \in {"none", "file", "dir"}, d \in {"none", "file"} :
       /\ files = FileTable({AbsM} \cup (IF m = "file" THEN {RelM} ELSE {})
                                   \cup (IF d = "file" THEN {RelD} ELSE {}))
       /\ dirs = IF m = "dir" THEN {RelM} ELSE {}

Next ==
  \E c \in ServerSlots :
    \/ list_available_plugins(c)
    \/ get_image_info(c)
    \/ run_pstree(c)
    \/ run_pslist(c)
    \/ run_psscan(c)
    \/ run_netscan(c)
    \/ run_malfind(c, RawPaths, DumpDirInputs)
    \/ run_cmdline(c)
    \/ run_dlllist(c)
    \/ run_handles(c)
    \/ run_filescan(c)
    \/ run_memmap(c)
    \/ run_custom_plugin(c)
    \/ get_volatility_plugins(c)
    \/ get_plugin_help(c)
    \/ SpawnOk(c)
    \/ SpawnFails(c)
    \/ ChildExit(c, ExitCodes, OutSamples, ErrSamples)
    \/ Respond(c)

Spec == Init /\ [][Next]_vars

----------------------------------------------------------------------------
(* list_memory_dumps *)

memory_extensions ==
  <<<<46, 114, 97, 119>>,  \* ".raw"
    <<46, 118, 109, 101, 109>>,  \* ".vmem"
    <<46, 100, 109, 112>>,  \* ".dmp"
    <<46, 109, 101, 109>>,  \* ".mem"
    <<46, 98, 105, 110>>,  \* ".bin"
    <<46, 105, 109, 103>>,  \* ".img"
    <<46, 48, 48, 49>>,  \* ".001"
    <<46, 100, 117, 109, 112>>>>  \* ".dump"

DirNotFoundPrefix == <<69, 114, 114, 111, 114, 58, 32, 68, 105, 114, 101, 99, 116, 111, 114, 121, 32, 110, 111, 116, 32, 102, 111, 117, 110, 100, 32, 97, 116, 32>>  \* "Error: Directory not found at "
NoDumpsPrefix == <<78, 111, 32, 109, 101, 109, 111, 114, 121, 32, 100, 117, 109, 112, 32, 102, 105, 108, 101, 115, 32, 102, 111, 117, 110, 100, 32, 105, 110, 32>>  \* "No memory dump files found in "
FoundHead == <<70, 111, 117, 110, 100, 32, 109, 101, 109, 111, 114, 121, 32, 100, 117, 109, 112, 32, 102, 105, 108, 101, 115, 58, 10>>  \* "Found memory dump files:\n"
SizeOpen == <<32, 40, 83, 105, 122, 101, 58, 32>>  \* " (Size: "
SizeClose == <<32, 77, 66, 41>>  \* " MB)"
\* os.getcwd()
Getcwd == <<47, 115, 114, 118>>  \* "/srv"
\* IsMemoryDumpName without lower()
IsMemoryDumpNameCased(file) ==
  \E i \in 1..Len(memory_extensions) : EndsWith(file, memory_extensions[i])

\* any(file.lower().endswith(ext) for ext in memory_extensions)
IsMemoryDumpName(file) ==
  \E i \in 1..Len(memory_extensions) : EndsWith(Lower(file), memory_extensions[i])

\* the last component of a path
BaseName(p) == LET parts == SplitOn(p, 47) IN parts[Len(parts)]

\* f"{size / (1024 * 1024):.2f}": the quotient is exact in binary floating
\* point, so the two decimals are those of size / 2^20 rounded half to even
FormatMB(size) ==
  LET scaled == size * 100
      q == scaled \div 1048576
      r == scaled % 1048576
      h == IF r > 524288 \/ (r = 524288 /\ q % 2 = 1) THEN q + 1 ELSE q
  IN ToDecimal(h \div 100) \o Dot \o <<48 + ((h \div 10) % 10), 48 + (h % 10)>>

\* the entry appended for one matching file; os.path.getsize follows the path
DumpEntry(fs, root, file) ==
  LET full_path == PathJoin(root, file)
  IN full_path \o SizeOpen \o FormatMB(fs[NormPath(full_path)]) \o SizeClose

RECURSIVE Orderings(_)
\* every order a directory listing may come in
Orderings(S) ==
  IF S = {} THEN {<<>>}
  ELSE UNION {{<<x>> \o rest : rest \in Orderings(S \ {x})} : x \in S}

RECURSIVE WalkEntries(_, _, _), WalkEach(_, _, _, _)
\* the loop over os.walk(root): the matching files of root in listing order,
\* then those of each subdirectory in turn; every listing order is possible
WalkEntries(fs, ds, root) ==
  LET node == NormPath(root)
      here == {BaseName(q) : q \in {x \in DOMAIN fs : ParentDir(x) = node}}
      subs == {BaseName(q) : q \in {x \in ds : ParentDir(x) = node}}
      mine == {[i \in 1..Len(o) |-> DumpEntry(fs, root, o[i])] :
                 o \in Orderings({file \in here : IsMemoryDumpName(file)})}
      below == UNION {WalkEach(fs, ds, root, o) : o \in Orderings(subs)}
  IN {a \o b : a \in mine, b \in below}

\* os.walk descending into the subdirectories names of root, in that order
WalkEach(fs, ds, root, names) ==
  IF names = <<>> THEN {<<>>}
  ELSE {a \o b : a \in WalkEntries(fs, ds, PathJoin(root, Head(names))),
                 b \in WalkEach(fs, ds, root, Tail(names))}

list_memory_dumps(c, search_dirs) ==
  /\ calls[c].pc = "idle"
  /\ UNCHANGED <<files, dirs>>
  /\ \E given \in search_dirs :
       LET search_dir == NormPath(IF Truthy(given) THEN given ELSE Getcwd)
           g == [IdleFrame EXCEPT !.op = "list_memory_dumps", !.path = search_dir]
       IN IF ~IsDir(dirs, search_dir)
          THEN calls' = [calls EXCEPT ![c] =
                           ReturnEarly(g, DirNotFoundPrefix \o search_dir)]
          ELSE \E memory_files \in WalkEntries(files, dirs, search_dir) :
                 calls' = [calls EXCEPT ![c] =
                   ReturnEarly([g EXCEPT !.memory_files = memory_files],
                               IF memory_files = <<>>
                               THEN NoDumpsPrefix \o search_dir
                               ELSE FoundHead \o Flatten(memory_files, <<10>>))]

----------------------------------------------------------------------------
(* SpecRace: run_malfind calls in flight together, one dump directory *)

RaceSlots == 1..MaxCalls
RaceDumpDirs == {AbsD, AbsDDot, AbsDD}

InitRace ==
  /\ calls = [c \in RaceSlots |-> IdleFrame]
  /\ files = FileTable({AbsM})
  /\ dirs = {}

NextRace ==
  \E c \in RaceSlots :
    \/ run_malfind(c, {AbsM}, RaceDumpDirs)
    \/ SpawnOk(c)
    \/ SpawnFails(c)
    \/ ChildExit(c, ExitCodes, {B_ok}, {B_boom})

SpecRace == InitRace /\ [][NextRace]_vars

----------------------------------------------------------------------------
(* SpecPlugins: the plugin catalogue over the help texts Volatility may print *)

L_heading == <<80, 108, 117, 103, 105, 110, 115>>  \* "Plugins"
L_heading_ws == <<32, 32, 80, 108, 117, 103, 105, 110, 115, 13>>  \* "  Plugins\r"
L_blank_ws == <<32, 13>>  \* " \r"
L_plugin_a == <<32, 32, 97, 46, 66, 13>>  \* "  a.B\r"
L_plugin_c == <<99>>  \* "c"
HelpLines == {L_heading, L_heading_ws, <<>>, L_blank_ws, L_plugin_a, L_plugin_c}

RECURSIVE LineSeqs(_)
LineSeqs(n) ==
  IF n = 0 THEN {<<>>}
  ELSE LET shorter == LineSeqs(n - 1)
       IN shorter \cup {Append(ls, l) : ls \in {x \in shorter : Len(x) = n - 1},
                                         l \in HelpLines}

\* the standard output of "vol.py -h": up to n lines joined by "\n"
HelpTexts(n) == {Encode(Flatten(ls, <<10>>)) : ls \in LineSeqs(n)}

InitPlugins ==
  /\ calls = [c \in ServerSlots |-> IdleFrame]
  /\ files = FileTable({})
  /\ dirs = {}

NextPlugins ==
  \E c \in ServerSlots :
    \/ get_volatility_plugins(c)
    \/ SpawnOk(c)
    \/ SpawnFails(c)
    \/ ChildExit(c, {0}, HelpTexts(MaxLines), {B_boom})
    \/ Respond(c)

SpecPlugins == InitPlugins /\ [][NextPlugins]_vars

----------------------------------------------------------------------------
(* SpecScan: list_memory_dumps over small trees *)

D_s == <<115>>  \* "s"
D_sub == <<115, 47, 115, 117, 98>>  \* "s/sub"
D_raw == <<115, 47, 120, 46, 114, 97, 119>>  \* "s/x.raw"
ScanDirs == {Getcwd, D_s, D_sub, D_raw}

N_dmp == <<97, 46, 100, 109, 112>>  \* "a.dmp"
N_txt == <<98, 46, 116, 120, 116>>  \* "b.txt"
N_RAW == <<99, 46, 82, 65, 87>>  \* "c.RAW"
N_dot == <<46, 86, 109, 101, 109>>  \* ".Vmem"
N_bak == <<101, 46, 100, 117, 109, 112, 46, 103, 122>>  \* "e.dump.gz"
\* the files a tree may hold: a name and a size in bytes
ScanNames == {<<N_dmp, 1048576>>, <<N_txt, 10>>, <<N_RAW, 131072>>,
              <<N_dot, 5243>>, <<N_bak, 123456789>>}

ScanCandidates == {<<PathJoin(d, n[1]), n[2]>> : d \in ScanDirs, n \in ScanNames}

S_none == <<110, 111, 119, 104, 101, 114, 101>>  \* "nowhere"
S_slash == <<115, 47, 47, 115, 117, 98, 47, 46>>  \* "s//sub/."
S_file == <<115, 47, 97, 46, 100, 109, 112>>  \* "s/a.dmp"
SearchDirs == {None, <<>>, D_s, D_sub, D_raw, S_slash, S_none, S_file}

InitScan ==
  /\ calls = [c \in ServerSlots |-> IdleFrame]
  /\ dirs = ScanDirs
  /\ \E chosen \in SUBSET ScanCandidates :
       /\ Cardinality(chosen) <= MaxFiles
       /\ files = [q \in {x[1] : x \in chosen} |->
                     (CHOOSE x \in chosen : x[1] = q)[2]]

NextScan ==
  \E c \in ServerSlots :
    \/ list_memory_dumps(c, SearchDirs)
    \/ Respond(c)

SpecScan == InitScan /\ [][NextScan]_vars

----------------------------------------------------------------------------
(* Properties *)

ImageOps ==
  {"get_image_info", "run_pstree", "run_pslist", "run_psscan", "run_netscan",
   "run_malfind", "run_cmdline", "run_dlllist", "run_handles", "run_filescan",
   "run_memmap", "run_custom_plugin"}

PidOps == {"run_dlllist", "run_handles", "run_memmap"}

Slots == DOMAIN calls

\* the subcommand each operation is documented to send
SubcommandOf(f) ==
  CASE f.op = "list_available_plugins" -> Opt_h
    [] f.op = "get_volatility_plugins" -> Opt_h
    [] f.op = "get_image_info" -> P_Info
    [] f.op = "run_pstree" -> P_PsTree
    [] f.op = "run_pslist" -> P_PsList
    [] f.op = "run_psscan" -> P_PsScan
    [] f.op = "run_netscan" -> P_NetScan
    [] f.op = "run_malfind" -> P_Malfind
    [] f.op = "run_cmdline" -> P_CmdLine
    [] f.op = "run_dlllist" -> P_DllList
    [] f.op = "run_handles" -> P_Handles
    [] f.op = "run_filescan" -> P_FileScan
    [] f.op = "run_memmap" -> P_Memmap
    [] OTHER -> f.plugin

\* the positions of --pid in a vector
PidFlagAt(cmd) == {i \in 1..Len(cmd) : cmd[i] = Opt_pid}

\* the part of the vector the operation and its parameters decide
ArgsAfter(f, lead) ==
  /\ Len(f.cmd) >= lead
  /\ LET args == SubSeq(f.cmd, lead + 1, Len(f.cmd))
         image == IF f.op \in ImageOps THEN <<Opt_f, f.path>> ELSE <<>>
         dump == IF f.op = "run_malfind" /\ Truthy(f.dump_dir)
                 THEN <<Opt_dump_dir, f.dump_dir>> ELSE <<>>
         pid == IF f.pid # <<>> THEN <<Opt_pid, ToDecimal(f.pid[1])>> ELSE <<>>
         free == IF f.op = "run_custom_plugin" THEN SplitWs(f.additional_args)
                 ELSE IF f.op = "get_plugin_help" THEN <<Opt_help>> ELSE <<>>
     IN args = image \o <<SubcommandOf(f)>> \o dump \o pid \o free

\* C1: a call whose normalized image path is no regular file has returned
\* "Error: Memory dump file not found at <path>" and has neither requested
\* nor started a child process, whatever its other parameters
C1_MissingImageNoSpawn ==
  \A c \in Slots :
    LET f == calls[c] IN
    (f.op \in ImageOps /\ ~IsFile(files, f.path))
      => /\ f.pc = "done"
         /\ f.result = NotFoundPrefix \o f.path
         /\ f.attempts = 0
         /\ f.children = 0

\* C1 happens: run_custom_plugin, with additional arguments, on a path that
\* exists but is a directory
C1_Witness ==
  \E c \in Slots :
    /\ calls[c].op = "run_custom_plugin"
    /\ calls[c].pc = "done"
    /\ calls[c].additional_args = ArgsPid
    /\ IsDir(dirs, calls[c].path)
    /\ calls[c].result = NotFoundPrefix \o calls[c].path

\* C2 as stated: every vector begins with the entry script, then -f <path>
\* for an image operation, the subcommand and the optional flags; --pid is
\* present exactly when a pid is supplied, right after the subcommand
C2_AsStated ==
  \A c \in Slots :
    LET f == calls[c] IN
    f.cmd # <<>>
      => /\ Head(f.cmd) = VOLATILITY_SCRIPT
         /\ ArgsAfter(f, 1)
         /\ (PidFlagAt(f.cmd) # {}) <=> (f.pid # <<>>)

\* C2, amended: every vector is the interpreter, the entry script, -f <path>
\* for an image operation, the subcommand, then --dump-dir <dir>, --pid <pid>
\* and the free-form tokens (or --help); for the operations with a pid
\* parameter --pid is present exactly when a pid is supplied, right after
\* the subcommand; the vector is decided by the operation and its parameters
C2_ArgumentVector ==
  \A c \in Slots :
    LET f == calls[c] IN
    f.cmd # <<>>
      => /\ f.cmd[1] = VOLATILITY_PYTHON
         /\ f.cmd[2] = VOLATILITY_SCRIPT
         /\ ArgsAfter(f, 2)
         /\ f.op \in PidOps
              => /\ PidFlagAt(f.cmd) = (IF f.pid # <<>> THEN {6} ELSE {})
                 /\ f.cmd[5] = SubcommandOf(f)

\* C2 happens: run_dlllist is spawned with pid 0
C2_Witness ==
  \E c \in Slots :
    /\ calls[c].op = "run_dlllist"
    /\ calls[c].pid = <<0>>
    /\ calls[c].children = 1
    /\ calls[c].cmd[6] = Opt_pid

\* C3 as stated: an image operation whose child exits with code zero returns
\* the text of the child's standard output and nothing else; run_pslist
\* spawns one child with <entry>, -f, <path>, windows.pslist.PsList
C3_AsStated ==
  \A c \in Slots :
    LET f == calls[c] IN
    (f.op \in ImageOps /\ f.pc = "done" /\ f.rc = <<0>>)
      => /\ f.result # None
         /\ f.result = Decode(f.stdout)
         /\ f.op = "run_pslist"
              => /\ f.children = 1
                 /\ SubSeq(f.cmd, 3, Len(f.cmd)) = <<Opt_f, f.path, P_PsList>>

\* the text run_malfind is documented to append for a directory with n entries
SummaryFor(f, n) ==
  IF f.op = "run_malfind" /\ Truthy(f.dump_dir) /\ n > 0
  THEN DumpedHead \o ToDecimal(n) \o DumpedTail \o f.dump_dir
  ELSE <<>>

\* C3, amended: an image operation whose child exits with code zero returns
\* the child's standard output decoded as UTF-8, undecodable bytes replaced by
\* U+FFFD and standard error left out, to which run_malfind alone appends its
\* summary when its dump directory has entries; run_pslist spawns one child
\* with <interpreter>, <entry script>, -f, <path>, windows.pslist.PsList
C3_DecodedStdout ==
  \A c \in Slots :
    LET f == calls[c]
        n == Cardinality({q \in (DOMAIN files) \cup dirs : ParentDir(q) = f.dump_dir})
    IN (f.op \in ImageOps /\ f.pc = "done" /\ f.rc = <<0>>)
         => /\ f.fault = None
            /\ f.result = Decode(f.stdout) \o SummaryFor(f, n)
            /\ (SummaryFor(f, n) = <<>> /\ Encode(Decode(f.stdout)) = f.stdout)
                 => Encode(f.result) = f.stdout
            /\ f.op = "run_pslist"
                 => /\ f.attempts = 1
                    /\ f.children = 1
                    /\ f.cmd = <<VOLATILITY_PYTHON, VOLATILITY_SCRIPT, Opt_f,
                                 f.path, P_PsList>>

\* C3 happens: run_pslist returns "ok\n" while the child also wrote to
\* standard error
C3_Witness ==
  \E c \in Slots :
    /\ calls[c].op = "run_pslist"
    /\ calls[c].pc = "done"
    /\ calls[c].rc = <<0>>
    /\ calls[c].stdout = B_ok
    /\ calls[c].stderr = B_boom
    /\ calls[c].result = B_ok

\* C4 as stated: whatever operation invoked the tool, a child that exits with
\* a non-zero code makes it return "Error running Volatility command: "
\* followed by the child's standard error
C4_AsStated ==
  \A c \in Slots :
    LET f == calls[c] IN
    (f.pc = "done" /\ f.rc # <<>> /\ f.rc # <<0>>)
      => /\ f.result # None
         /\ StartsWith(f.result, ErrRunPrefix \o Decode(f.stderr))

\* C5 as stated: whatever operation invoked the tool, a spawn that fails makes
\* it return "Exception running Volatility: <description>", and no exception
\* leaves the handler
C5_AsStated ==
  \A c \in Slots :
    LET f == calls[c] IN
    (f.pc = "done" /\ f.attempts = 1 /\ f.children = 0)
      => /\ f.fault = None
         /\ f.result # None
         /\ \E e \in SpawnErrors : StartsWith(f.result, ExcRunPrefix \o e)

\* C6 as stated: run_malfind appends its summary only after a run that exited
\* with code zero and wrote files to the dump directory
C6_AsStated ==
  \A c \in Slots :
    LET f == calls[c] IN
    (f.op = "run_malfind" /\ f.pc = "done" /\ f.rv # None /\ f.result # f.rv)
      => /\ f.rc = <<0>>
         /\ f.dumped > 0

\* C7: run_malfind, given an existing image and a dump directory, has the
\* directory and its ancestors in place and --dump-dir <dir> in the vector
\* from the moment it requests the spawn; otherwise it has returned "Error
\* creating dump directory: <description>" without requesting a spawn
C7_DumpDirReady ==
  \A c \in Slots :
    LET f == calls[c] IN
    (f.op = "run_malfind" /\ IsFile(files, f.path) /\ Truthy(f.dump_dir))
      => IF f.attempts > 0
         THEN /\ \A i \in 1..Len(Prefixes(f.dump_dir)) :
                   IsDir(dirs, Prefixes(f.dump_dir)[i])
              /\ f.cmd = <<VOLATILITY_PYTHON, VOLATILITY_SCRIPT, Opt_f, f.path,
                           P_Malfind, Opt_dump_dir, f.dump_dir>>
         ELSE /\ f.pc = "done"
              /\ f.children = 0
              /\ \E e \in {E_ACCES, E_EXIST, E_NOTDIR},
                    i \in 1..Len(Prefixes(f.dump_dir)) :
                   f.result = DumpDirErrPrefix
                                \o OSErrorStr(e, Prefixes(f.dump_dir)[i])

\* C7 happens: the child runs with --dump-dir /d/d, which no tree starts with
C7_Witness ==
  \E c \in Slots :
    /\ calls[c].op = "run_malfind"
    /\ calls[c].dump_dir = AbsDD
    /\ calls[c].children = 1
    /\ AbsD \in dirs /\ AbsDD \in dirs

\* the lines the catalogue is said to hold: those after the first heading line
\* and before the first blank line that follows it, trimmed
LinesPromised(lines) ==
  LET heads == {i \in 1..Len(lines) : Strip(lines[i]) = Heading} IN
  IF heads = {} THEN <<>>
  ELSE LET h == CHOOSE i \in heads : \A j \in heads : i <= j
           blanks == {i \in (h+1)..Len(lines) : Strip(lines[i]) = <<>>}
           stop == IF blanks = {} THEN Len(lines) + 1
                   ELSE CHOOSE i \in blanks : \A j \in blanks : i <= j
       IN [i \in 1..(stop - h - 1) |-> Strip(lines[h + i])]

NotHeading(line) == line # Heading

\* C8 as stated: the catalogue holds every line between the first heading line
\* and the first blank line after it, trimmed and in order, and nothing else
C8_AsStated ==
  \A c \in Slots :
    LET f == calls[c] IN
    (f.op = "get_volatility_plugins" /\ f.pc = "done" /\ f.rc = <<0>>)
      => f.result = JsonDumps(LinesPromised(SplitOn(Decode(f.stdout), 10)))

\* C8, amended: the catalogue holds every line between the first heading line
\* and the first blank line after it, trimmed and in order, except the lines
\* that are again the heading, which are skipped; nothing else is captured
C8_PluginLines ==
  \A c \in Slots :
    LET f == calls[c] IN
    (f.op = "get_volatility_plugins" /\ f.pc = "done" /\ f.rc = <<0>>)
      => f.result = JsonDumps(SelectSeq(
                      LinesPromised(SplitOn(Decode(f.stdout), 10)), NotHeading))

ThreePlugins == <<91, 10, 32, 32, 34, 97, 46, 66, 34, 44, 10, 32, 32, 34, 99, 34, 44, 10, 32, 32, 34, 97, 46, 66, 34, 10, 93>>  \* "[\n  \"a.B\",\n  \"c\",\n  \"a.B\"\n]"
\* C8 happens: a heading, three lines, a blank line and a trailing line give
\* exactly the three lines
C8_Witness ==
  \E c \in Slots :
    /\ calls[c].op = "get_volatility_plugins"
    /\ calls[c].pc = "done"
    /\ calls[c].stdout = Encode(Flatten(<<L_heading, L_plugin_a, L_plugin_c,
                                          L_plugin_a, <<>>, L_plugin_c>>, <<10>>))
    /\ calls[c].result = ThreePlugins

\* the names of ScanNames that end, case aside, with a listed extension
DumpNames == {N_dmp, N_RAW, N_dot}

\* the files of the tree below directory top
FilesBelow(top) == {q \in DOMAIN files : StartsWith(q, top \o Slash)}

\* C9: list_memory_dumps reports exactly the files below the search directory,
\* at any depth, whose name ends case-insensitively with a listed extension,
\* each once; a search directory that is no directory gives "Error: Directory
\* not found at <dir>", and no match gives "No memory dump files found in <dir>"
C9_ListsDumps ==
  \A c \in Slots :
    LET f == calls[c]
        expect == {q \in FilesBelow(f.path) : BaseName(q) \in DumpNames}
        entry(q) == q \o SizeOpen \o FormatMB(files[q]) \o SizeClose
    IN (f.op = "list_memory_dumps" /\ f.pc = "done")
         => IF ~IsDir(dirs, f.path)
            THEN f.result = DirNotFoundPrefix \o f.path
            ELSE /\ {f.memory_files[i] : i \in 1..Len(f.memory_files)}
                      = {entry(q) : q \in expect}
                 /\ Len(f.memory_files) = Cardinality(expect)
                 /\ f.result = IF expect = {} THEN NoDumpsPrefix \o f.path
                               ELSE FoundHead \o Flatten(f.memory_files, <<10>>)

\* C9 happens: a directory holding a.dmp, b.txt and c.RAW yields the two dumps
C9_Witness ==
  \E c \in Slots :
    /\ calls[c].op = "list_memory_dumps"
    /\ calls[c].pc = "done"
    /\ calls[c].path = D_s
    /\ DOMAIN files = {PathJoin(D_s, N_dmp), PathJoin(D_s, N_txt), PathJoin(D_s, N_RAW)}
    /\ Len(calls[c].memory_files) = 2
    /\ StartsWith(calls[c].result, FoundHead)

\* C10: of the run_malfind calls in flight for one dump directory, each one
\* that has started has requested its child with --dump-dir <dir>, unless the
\* system itself refused to create the directory; none has failed because the
\* directory, or an ancestor of it, was there already
C10_RaceBenign ==
  \A c \in RaceSlots :
    LET f == calls[c] IN
    f.pc # "idle"
      => \/ /\ f.attempts = 1
            /\ f.cmd = <<VOLATILITY_PYTHON, VOLATILITY_SCRIPT, Opt_f, f.path,
                         P_Malfind, Opt_dump_dir, f.dump_dir>>
            /\ IsDir(dirs, f.dump_dir)
         \/ /\ f.pc = "done"
            /\ f.attempts = 0
            /\ \E i \in 1..Len(Prefixes(f.dump_dir)) :
                 f.result = DumpDirErrPrefix
                              \o OSErrorStr(E_ACCES, Prefixes(f.dump_dir)[i])

\* C10 happens: two calls for /d, which did not exist, both have their child
C10_Witness ==
  \E c1 \in RaceSlots, c2 \in RaceSlots :
    /\ c1 # c2
    /\ calls[c1].dump_dir = AbsD /\ calls[c2].dump_dir = AbsD
    /\ calls[c1].pc = "running" /\ calls[c2].pc = "running"

====
